---- MODULE Spec2Model ----
(***************************************************************************)
(* Model of chuango-h4-client: the Client (login, listDevices, connect)    *)
(* and the message dispatch of its DeviceConnection.                       *)
(*                                                                         *)
(* A DeviceConnection is bound to one logged-in Client (the session).  It  *)
(* keeps a mapping from action name to a single handler, the last known    *)
(* status (online, model), the device list and the alarm state.  Requests  *)
(* (getAllDevices, getCurrentAlarmState, setAlarmState) store a closure    *)
(* in the mapping and return a promise; every inbound MQTT message is      *)
(* parsed and dispatched by the "message" callback.                        *)
(*                                                                         *)
(* One step of the model is one call of a public method or one run of the  *)
(* "message" callback (JavaScript runs each to completion).  A call of the *)
(* Client awaits its HTTP exchanges; it shares no state with any other     *)
(* call while it waits, so the call and the responses it was given are one *)
(* step.                                                                   *)
(***************************************************************************)
EXTENDS Integers, Sequences, FiniteSets, TLC

VARIABLES
    session,    \* the Client: username, alias, token, options.baseURL
    handlers,   \* DeviceConnection.handlers: action name -> handler
    model,      \* DeviceConnection.model
    online,     \* DeviceConnection.online
    devices,    \* DeviceConnection.devices
    alarm,      \* DeviceConnection.alarm: <<>> is null, <<a>> is the state a
    promises,   \* the promises handed out so far, in creation order
    listing,    \* history of the pages seen by the registered listing handler
    op,         \* the operation of the last step and its input
    invoked,    \* handlers invoked during the last step, in call order
    emitted,    \* events emitted during the last step, in order
    settled,    \* promise settlements of the last step, in order
    published,  \* envelopes handed to mqtt.publish during the last step
    raised,     \* the last step ended with an exception
    logged,     \* the last step wrote the message to the console
    clientId,   \* DeviceConnection.clientId
    effects,    \* the emits and settlements of the last step, in program order
    network,    \* exchanges of the last Client call: each request, its response
    result      \* what the last Client call returned or threw

vars == <<session, handlers, model, online, devices, alarm, promises, listing,
          op, invoked, emitted, settled, published, raised, logged, clientId,
          effects, network, result>>

----------------------------------------------------------------------------
(* Bounds *)

MaxCalls == 2       \* requests issued over a run
MaxDevices == 3     \* length of the device list

----------------------------------------------------------------------------
(* Values *)

Undefined == "undefined"    \* a field the JSON object does not carry

\* enum ArmState
Home == 1
Disarmed == 2
Armed == 3
SOS == 4
ArmState == {Home, Disarmed, Armed, SOS}

\* what Number() yields for a value that is not numeric
NaN == -1

\* Number(resp.CurrentSceneId)
ToNumber(s) ==
    CASE s = "1" -> 1
      [] s = "2" -> 2
      [] s = "3" -> 3
      [] s = "4" -> 4
      [] s = "7" -> 7
      [] OTHER -> NaN

\* the states the caller asks for in setAlarmState
RequestedStates == {Disarmed, Armed}

\* Device entries: DevId is the identifier, DevName stands for the rest.
Dev(id, name) == [DevId |-> id, DevName |-> name]

\* resp.DevicesList: missing, a truthy value that is not iterable, or an array
NoList == [kind |-> "absent", items |-> <<>>]
BadList == [kind |-> "bad", items |-> <<>>]
Array(s) == [kind |-> "array", items |-> s]
DevicesLists ==
    {NoList, BadList, Array(<<Dev("1", "a")>>), Array(<<Dev("2", "a"), Dev("1", "b")>>)}

\* "android_" + Math.floor(Math.random() * 1000000)
ClientIds == {"android_271828"}

Sessions ==
    {[username |-> "user@example.org", alias |-> "Home", token |-> "ABC",
      baseURL |-> "https://uac.example"]}

----------------------------------------------------------------------------
(* The HTTP exchanges of the Client.  A response is resp.data: data says   *)
(* whether the response has a body at all, uibReturn whether the body has  *)
(* a uibReturn object (whose "Return status", token and uacIP are then     *)
(* status, token and uacIP).                                               *)

DREAMCATCHER_ROOT == "dc11.iotdreamcatcher.net"

\* the caller holds no Client yet
NoClient ==
    [username |-> Undefined, alias |-> Undefined, token |-> Undefined,
     baseURL |-> Undefined]

\* new Client(client, options, username, alias, uuid, uib, token)
NewClient(username, alias, token, baseURL) ==
    [username |-> username, alias |-> alias, token |-> token, baseURL |-> baseURL]

NoBody ==
    [data |-> FALSE, uibReturn |-> FALSE, status |-> Undefined, token |-> Undefined,
     uacIP |-> Undefined, alias |-> Undefined, list |-> <<>>]

\* the answer to userReg
Directory(st, tok) ==
    [NoBody EXCEPT !.data = TRUE, !.uibReturn = TRUE, !.status = st,
                   !.token = tok, !.uacIP = "uac.example"]
NoUib == [NoBody EXCEPT !.data = TRUE]
\* the answer to userLogin
LoginReply(st, tok) == [NoBody EXCEPT !.data = TRUE, !.status = st, !.token = tok]
\* the answer to getUserInfo: user.userAlias is alias
UserInfo(st, al) == [NoBody EXCEPT !.data = TRUE, !.status = st, !.alias = al]
\* the answer to listDevice: list.list is list
DeviceList(st, l) == [NoBody EXCEPT !.data = TRUE, !.status = st, !.list = l]

DeviceInfos == {[deviceID |-> "D1", cmdIP |-> "cmd.example"]}

Usernames == {"user@example.org", "other@example.org"}
DirectoryResponses == {Directory("200", "U1"), Directory("500", "U1"), NoUib}
LoginResponses ==
    {LoginReply("200", "ABC"), LoginReply("200", "XYZ"),
     LoginReply("500", Undefined), NoBody}
UserInfoResponses ==
    {UserInfo("200", "Home"), UserInfo("200", "Flat"), UserInfo("500", Undefined), NoBody}
ListResponses ==
    {DeviceList("200", <<>>), DeviceList("200", <<[deviceID |-> "D1", cmdIP |-> "cmd.example"]>>),
     DeviceList("500", <<>>), DeviceList(Undefined, <<>>)}

\* one request with the parts of its URL or options that vary, and its answer
Exchange(call, target, username, token, response) ==
    [call |-> call, target |-> target, username |-> username, token |-> token,
     response |-> response]

\* the outcome of a call of the Client
NoResult == [how |-> "none", client |-> NoClient, body |-> NoBody, list |-> <<>>]
ReturnedClient(c) == [NoResult EXCEPT !.how = "returned", !.client = c]
ReturnedList(l) == [NoResult EXCEPT !.how = "returned", !.list = l]
ReturnedConnection == [NoResult EXCEPT !.how = "returned"]
\* Thrown, if only the status of the response were raised
ThrownStatus(b) ==
    [NoResult EXCEPT !.how = "thrown", !.body = [NoBody EXCEPT !.status = b.status]]

\* throw resp.data
Thrown(b) == [NoResult EXCEPT !.how = "thrown", !.body = b]

\* LoginCall, if the answer to userLogin completed the login
LoginCallTwoStep(username, dir, login, info) ==
    LET base == "https://" \o dir.uacIP
        userReg == Exchange("userReg", "https://" \o DREAMCATCHER_ROOT,
                            Undefined, Undefined, dir)
        userLogin == Exchange("userLogin", base, username, dir.token, login)
    IN IF dir.uibReturn /\ dir.status = "200"
       THEN IF login.data /\ login.status = "200"
            THEN [network |-> <<userReg, userLogin>>,
                  result |-> ReturnedClient(
                               NewClient(username, Undefined, login.token, base))]
            ELSE [network |-> <<userReg, userLogin>>, result |-> Thrown(login)]
       ELSE [network |-> <<userReg>>, result |-> Thrown(dir)]

\* LoginCall, if the session kept the token of the directory
LoginCallDirectoryToken(username, dir, login, info) ==
    LET base == "https://" \o dir.uacIP
        userReg == Exchange("userReg", "https://" \o DREAMCATCHER_ROOT,
                            Undefined, Undefined, dir)
        userLogin == Exchange("userLogin", base, username, dir.token, login)
        getUserInfo == Exchange("getUserInfo", base, username, dir.token, info)
    IN IF dir.uibReturn /\ dir.status = "200"
       THEN IF login.data /\ login.status = "200"
            THEN IF info.data /\ info.status = "200"
                 THEN [network |-> <<userReg, userLogin, getUserInfo>>,
                       result |-> ReturnedClient(
                                    NewClient(username, info.alias, dir.token, base))]
                 ELSE [network |-> <<userReg, userLogin, getUserInfo>>,
                       result |-> Thrown(info)]
            ELSE [network |-> <<userReg, userLogin>>, result |-> Thrown(login)]
       ELSE [network |-> <<userReg>>, result |-> Thrown(dir)]

\* Client.login(username, password, uuid), given the answers of the servers
LoginCall(username, dir, login, info) ==
    LET base == "https://" \o dir.uacIP
        userReg == Exchange("userReg", "https://" \o DREAMCATCHER_ROOT,
                            Undefined, Undefined, dir)
        userLogin == Exchange("userLogin", base, username, dir.token, login)
        getUserInfo == Exchange("getUserInfo", base, username, dir.token, info)
    IN IF dir.uibReturn /\ dir.status = "200"
       THEN IF login.data /\ login.status = "200"
            THEN LET token == login.token
                 IN IF info.data /\ info.status = "200"
                    THEN [network |-> <<userReg, userLogin, getUserInfo>>,
                          result |-> ReturnedClient(
                                       NewClient(username, info.alias, token, base))]
                    ELSE [network |-> <<userReg, userLogin, getUserInfo>>,
                          result |-> Thrown(info)]
            ELSE [network |-> <<userReg, userLogin>>, result |-> Thrown(login)]
       ELSE [network |-> <<userReg>>, result |-> Thrown(dir)]

\* ListCall, if only an explicit failure status failed the call
ListCallUnlessFailure(c, resp) ==
    [network |-> <<Exchange("listDevice", c.baseURL, c.username, c.token, resp)>>,
     result |-> IF resp.status # "500" THEN ReturnedList(resp.list) ELSE Thrown(resp)]

\* Client.listDevices(), given the answer of the server
ListCall(c, resp) ==
    [network |-> <<Exchange("listDevice", c.baseURL, c.username, c.token, resp)>>,
     result |-> IF resp.status = "200" THEN ReturnedList(resp.list) ELSE Thrown(resp)]

----------------------------------------------------------------------------
(* Inbound messages.  shape is what JSON.parse makes of the payload:       *)
(* "garbage" does not parse, "null" parses to null, "object" to an object. *)
(* hasResponse is (msg.message && msg.message.response).                   *)

Blank ==
    [shape |-> "object", hasResponse |-> TRUE, msg |-> Undefined,
     subject |-> "zwave", action |-> Undefined,
     clear_flag |-> Undefined, page_flag |-> Undefined, DevicesList |-> NoList,
     status |-> Undefined, CurrentSceneId |-> Undefined, AlarmState |-> Undefined,
     online |-> Undefined, model |-> Undefined]

\* a page of the device listing
Page(clear, page, list) ==
    [Blank EXCEPT !.action = "get_all_devices", !.clear_flag = clear,
                  !.page_flag = page, !.DevicesList = list]

\* an update_devices notification
Update(list) == [Blank EXCEPT !.action = "update_devices", !.DevicesList = list]

\* a SceneUpdate notification
Scene(id, flag) ==
    [Blank EXCEPT !.action = "SceneUpdate", !.CurrentSceneId = id, !.AlarmState = flag]

\* a status_info notification
Status(o) == [Blank EXCEPT !.action = "status_info", !.online = o, !.model = "H4"]

\* a response that carries an action and a status
Ack(a, st) == [Blank EXCEPT !.action = a, !.status = st]

\* the same message on the "Alarm" subject
OnAlarmSubject(m) == [m EXCEPT !.subject = "Alarm"]

Garbage == [Blank EXCEPT !.shape = "garbage", !.hasResponse = FALSE]
JsonNull == [Blank EXCEPT !.shape = "null", !.hasResponse = FALSE]
NoResponse == [Blank EXCEPT !.hasResponse = FALSE]
OnlineNote == [Blank EXCEPT !.hasResponse = FALSE, !.msg = "online"]

\* the inbound traffic of the device listing
ListingMessages ==
    {Page(c, p, l) : c \in {"0", "1"}, p \in {"0", "1", "2"}, l \in DevicesLists}
    \cup {Update(l) : l \in DevicesLists}
    \cup {OnAlarmSubject(Page("1", "0", Array(<<Dev("2", "a")>>))), Garbage}

\* the inbound traffic of the alarm state
SceneMessages ==
    {Scene(id, f) : id \in {"1", "3", "7", Undefined}, f \in {"0", "1"}}
    \cup {Ack("set_scene_current", st) : st \in {"ok", "fail"}}
    \cup {Ack("get_scene_current", "ok")}
    \cup {OnAlarmSubject(Ack("set_scene_current", "ok")), OnAlarmSubject(Scene("3", "1"))}

\* one or two messages of every shape the "message" callback tells apart
Messages ==
    {Page("1", "0", Array(<<Dev("2", "a")>>)), Page("1", "1", NoList),
     Update(Array(<<Dev("2", "a")>>)), Scene("3", "1"), Status("1"), Status("0"),
     Ack("set_scene_current", "ok"), Ack("set_scene_current", "fail"),
     Ack("get_scene_current", "ok"), Ack("device_info", "ok"),
     Ack("other", "ok"), Ack(Undefined, "ok"), Ack("__proto__", "ok"),
     OnAlarmSubject(Page("1", "0", Array(<<Dev("1", "a")>>))),
     OnAlarmSubject(Ack("set_scene_current", "ok")),
     OnAlarmSubject(Scene("1", "0")),
     OnAlarmSubject(Ack(Undefined, Undefined)),
     Garbage, JsonNull, NoResponse, OnlineNote}

ActionNames ==
    {"device_info", "get_all_devices", "get_scene_current", "set_scene_current",
     "status_info", "update_devices", "SceneUpdate", "other", "__proto__", Undefined}

\* the actions a caller can ask about, and the kind of closure each request stores
RequestActions == {"get_all_devices", "get_scene_current", "set_scene_current"}
KindOf(a) ==
    CASE a = "get_all_devices" -> "getAllDevices"
      [] a = "get_scene_current" -> "getCurrentAlarmState"
      [] a = "set_scene_current" -> "setAlarmState"

----------------------------------------------------------------------------
(* Handlers.  kind names the function; p is the promise a request closure  *)
(* captured, newState the argument setAlarmState captured.                 *)

Handler(k, p, s) == [kind |-> k, p |-> p, newState |-> s]
NoHandler == Handler("undefined", 0, 0)
\* what a plain object yields for the key "__proto__": truthy, not a function
ObjectPrototype == Handler("Object.prototype", 0, 0)
ignore_message == Handler("ignore_message", 0, 0)

\* The mutable part of the connection while one step runs.
Context ==
    [handlers |-> handlers, model |-> model, online |-> online, devices |-> devices,
     alarm |-> alarm, promises |-> promises, listing |-> listing,
     invoked |-> <<>>, emitted |-> <<>>, settled |-> <<>>, effects |-> <<>>,
     raised |-> FALSE, logged |-> FALSE]

\* this.emit(type, value)
Emit(c, type, value) ==
    [c EXCEPT !.emitted = Append(@, [type |-> type, value |-> value]),
              !.effects = Append(@, [out |-> "emit", at |-> Len(c.emitted) + 1])]

\* Settle, if a settlement reached every pending promise of the same kind
RECURSIVE SettleEach(_, _, _, _, _)
SettleEach(c, q, kind, how, v) ==
    IF q = 0 THEN c
    ELSE LET d == SettleEach(c, q - 1, kind, how, v)
         IN IF d.promises[q].kind = kind /\ d.promises[q].status = "pending"
            THEN [d EXCEPT !.promises[q].status = how,
                           !.settled = Append(@, [p |-> q, kind |-> kind,
                                                  how |-> how, value |-> v])]
            ELSE d
SettleAll(c, p, how, v) == SettleEach(c, Len(c.promises), c.promises[p].kind, how, v)

\* resolve(v) / reject(v) of promise p: only the first settlement counts
Settle(c, p, how, v) ==
    IF c.promises[p].status = "pending"
    THEN [c EXCEPT !.promises[p].status = how,
                   !.settled = Append(@, [p |-> p, kind |-> c.promises[p].kind,
                                          how |-> how, value |-> v]),
                   !.effects = Append(@, [out |-> "settle", at |-> Len(c.settled) + 1])]
    ELSE c
Resolve(c, p, v) == Settle(c, p, "resolved", v)
Reject(c, p, v) == Settle(c, p, "rejected", v)

\* a TypeError thrown by the statement being executed
Throw(c) == [c EXCEPT !.raised = TRUE]

\* this.devices.findIndex((item) => item.DevId == dev.DevId): 0 stands for -1
FindIndex(devs, dev) ==
    IF \E i \in 1..Len(devs) : devs[i].DevId = dev.DevId
    THEN CHOOSE i \in 1..Len(devs) :
            /\ devs[i].DevId = dev.DevId
            /\ \A j \in 1..(i - 1) : devs[j].DevId # dev.DevId
    ELSE 0

\* the loop of handlers["update_devices"] over resp.DevicesList
RECURSIVE MergeDevices(_, _)
MergeDevices(devs, list) ==
    IF list = <<>> THEN devs
    ELSE LET dev == Head(list)
             idx == FindIndex(devs, dev)
         IN MergeDevices(IF idx > 0 THEN [devs EXCEPT ![idx] = dev]
                                    ELSE Append(devs, dev),
                         Tail(list))

\* StatusInfo, if a connection once seen online stayed online
StatusInfoSticky(m, c) ==
    Emit([c EXCEPT !.model = m.model, !.online = (@ \/ m.online = "1")],
         "status", (m.online = "1"))

\* handlers["status_info"]
StatusInfo(m, c) ==
    Emit([c EXCEPT !.model = m.model, !.online = (m.online = "1")],
         "status", (m.online = "1"))

\* UpdateDevices, if every received device were added at the end
UpdateDevicesAppend(m, c) ==
    CASE m.DevicesList.kind = "absent" -> c
      [] m.DevicesList.kind = "bad" -> Throw(c)
      [] m.DevicesList.kind = "array" ->
            LET merged == c.devices \o m.DevicesList.items
            IN [c EXCEPT !.devices = merged,
                         !.listing.exact = @ /\ (merged = c.devices)]

\* handlers["update_devices"]
UpdateDevices(m, c) ==
    CASE m.DevicesList.kind = "absent" -> c
      [] m.DevicesList.kind = "bad" -> Throw(c)
      [] m.DevicesList.kind = "array" ->
            LET merged == MergeDevices(c.devices, m.DevicesList.items)
            IN [c EXCEPT !.devices = merged,
                         !.listing.exact = @ /\ (merged = c.devices)]

\* ListingHandler, if every page_flag but "1" counted as the last page
ListingHandlerNotOne(h, m, c) ==
    LET clear == (m.clear_flag = "1")
        kept == IF clear THEN <<>> ELSE c.devices
        c1 == [c EXCEPT !.devices = kept]
    IN IF m.DevicesList.kind = "bad"
       THEN Throw([c1 EXCEPT !.listing.regular = FALSE, !.listing.acc = <<>>])
       ELSE LET all == kept \o m.DevicesList.items
                fits == /\ c.listing.regular
                        /\ ~(clear /\ c.listing.started)
                        /\ m.page_flag \in {"0", "1"}
                c2 == [c1 EXCEPT
                         !.devices = all,
                         !.listing = [acc |-> IF fits THEN @.acc \o m.DevicesList.items
                                                      ELSE <<>>,
                                      started |-> TRUE,
                                      exact |-> @.exact \/ clear,
                                      regular |-> fits]]
            IN IF m.page_flag # "1"
               THEN Resolve([c2 EXCEPT !.handlers["get_all_devices"] = ignore_message],
                            h.p, all)
               ELSE c2

\* ListingHandler, if a page were put in front of the list (unshift for push)
ListingHandlerPrepend(h, m, c) ==
    LET clear == (m.clear_flag = "1")
        kept == IF clear THEN <<>> ELSE c.devices
        c1 == [c EXCEPT !.devices = kept]
    IN IF m.DevicesList.kind = "bad"
       THEN Throw([c1 EXCEPT !.listing.regular = FALSE, !.listing.acc = <<>>])
       ELSE LET all == m.DevicesList.items \o kept
                fits == /\ c.listing.regular
                        /\ ~(clear /\ c.listing.started)
                        /\ m.page_flag \in {"0", "1"}
                c2 == [c1 EXCEPT
                         !.devices = all,
                         !.listing = [acc |-> IF fits THEN @.acc \o m.DevicesList.items
                                                      ELSE <<>>,
                                      started |-> TRUE,
                                      exact |-> @.exact \/ clear,
                                      regular |-> fits]]
            IN IF m.page_flag = "0"
               THEN Resolve([c2 EXCEPT !.handlers["get_all_devices"] = ignore_message],
                            h.p, all)
               ELSE c2

\* ListingHandler, if the closure stayed in the mapping after the last page
ListingHandlerKeepsSlot(h, m, c) ==
    LET clear == (m.clear_flag = "1")
        kept == IF clear THEN <<>> ELSE c.devices
        c1 == [c EXCEPT !.devices = kept]
    IN IF m.DevicesList.kind = "bad"
       THEN Throw([c1 EXCEPT !.listing.regular = FALSE, !.listing.acc = <<>>])
       ELSE LET all == kept \o m.DevicesList.items
                fits == /\ c.listing.regular
                        /\ ~(clear /\ c.listing.started)
                        /\ m.page_flag \in {"0", "1"}
                c2 == [c1 EXCEPT
                         !.devices = all,
                         !.listing = [acc |-> IF fits THEN @.acc \o m.DevicesList.items
                                                      ELSE <<>>,
                                      started |-> TRUE,
                                      exact |-> @.exact \/ clear,
                                      regular |-> fits]]
            IN IF m.page_flag = "0" THEN Resolve(c2, h.p, all) ELSE c2

\* the closure getAllDevices() stores under "get_all_devices"; resolve is
\* handed this.devices, recorded here with the entries it has at that moment
ListingHandler(h, m, c) ==
    LET clear == (m.clear_flag = "1")
        kept == IF clear THEN <<>> ELSE c.devices
        c1 == [c EXCEPT !.devices = kept]
    IN IF m.DevicesList.kind = "bad"
       THEN Throw([c1 EXCEPT !.listing.regular = FALSE, !.listing.acc = <<>>])
       ELSE LET all == kept \o m.DevicesList.items
                fits == /\ c.listing.regular
                        /\ ~(clear /\ c.listing.started)
                        /\ m.page_flag \in {"0", "1"}
                c2 == [c1 EXCEPT
                         !.devices = all,
                         !.listing = [acc |-> IF fits THEN @.acc \o m.DevicesList.items
                                                      ELSE <<>>,
                                      started |-> TRUE,
                                      exact |-> @.exact \/ clear,
                                      regular |-> fits]]
            IN IF m.page_flag = "0"
               THEN Resolve([c2 EXCEPT !.handlers["get_all_devices"] = ignore_message],
                            h.p, all)
               ELSE c2

\* SceneCurrentHandler, if it answered to the action it is stored under
SceneCurrentHandlerOwnAction(h, m, c) ==
    IF m.action = "get_scene_current"
    THEN Resolve([c EXCEPT !.handlers["get_scene_current"] = ignore_message],
                 h.p, c.alarm)
    ELSE c

\* SceneCurrentHandler, if a response other than a SceneUpdate failed the call
SceneCurrentHandlerRejecting(h, m, c) ==
    IF m.action = "SceneUpdate"
    THEN Resolve([c EXCEPT !.handlers["get_scene_current"] = ignore_message],
                 h.p, c.alarm)
    ELSE Reject(c, h.p, m)

\* the closure getCurrentAlarmState() stores under "get_scene_current"
SceneCurrentHandler(h, m, c) ==
    IF m.action = "SceneUpdate"
    THEN Resolve([c EXCEPT !.handlers["get_scene_current"] = ignore_message],
                 h.p, c.alarm)
    ELSE c

\* SetSceneHandler, if the state were recorded before the status is looked at
SetSceneHandlerEager(h, m, c) ==
    LET c1 == [c EXCEPT !.alarm = <<[State |-> h.newState, Alarm |-> FALSE]>>]
    IN IF m.status = "ok"
       THEN Resolve(c1, h.p, TRUE)
       ELSE Reject(c1, h.p, m)

\* the closure setAlarmState(newState) stores under "set_scene_current"
SetSceneHandler(h, m, c) ==
    IF m.status = "ok"
    THEN Resolve([c EXCEPT !.alarm = <<[State |-> h.newState, Alarm |-> FALSE]>>],
                 h.p, TRUE)
    ELSE Reject(c, h.p, m)

RECURSIVE Call(_, _, _)

\* SceneUpdate, if the event were emitted after the closure had run
SceneUpdateEmitLast(m, c) ==
    LET a == [State |-> ToNumber(m.CurrentSceneId), Alarm |-> (m.AlarmState = "1")]
        c1 == [c EXCEPT !.alarm = <<a>>]
        callback == c1.handlers["get_scene_current"]
    IN Emit(IF callback # NoHandler THEN Call(callback, m, c1) ELSE c1, "state", a)

\* handlers["SceneUpdate"]
SceneUpdate(m, c) ==
    LET a == [State |-> ToNumber(m.CurrentSceneId), Alarm |-> (m.AlarmState = "1")]
        c1 == Emit([c EXCEPT !.alarm = <<a>>], "state", a)
        callback == c1.handlers["get_scene_current"]
    IN IF callback # NoHandler THEN Call(callback, m, c1) ELSE c1

\* handler(msg): run the function the handler value names
Call(h, m, c) ==
    LET c1 == [c EXCEPT !.invoked = Append(@, h)]
    IN CASE h.kind = "Object.prototype" -> Throw(c)
         [] h.kind = "ignore_message" -> c1
         [] h.kind = "status_info" -> StatusInfo(m, c1)
         [] h.kind = "update_devices" -> UpdateDevices(m, c1)
         [] h.kind = "SceneUpdate" -> SceneUpdate(m, c1)
         [] h.kind = "getAllDevices" -> ListingHandler(h, m, c1)
         [] h.kind = "getCurrentAlarmState" -> SceneCurrentHandler(h, m, c1)
         [] h.kind = "setAlarmState" -> SetSceneHandler(h, m, c1)

\* OnMessage, if the action were looked up before the subject
OnMessageActionFirst(m, c) ==
    IF m.shape # "object"
    THEN Throw(c)
    ELSE IF m.hasResponse
         THEN LET handler == c.handlers[m.action]
              IN IF handler # NoHandler
                 THEN Call(handler, m, c)
                 ELSE IF m.subject = "Alarm"
                      THEN Emit(c, "alarm", m)
                      ELSE [c EXCEPT !.logged = TRUE]
         ELSE IF m.msg = "online"
              THEN c
              ELSE [c EXCEPT !.logged = TRUE]

\* OnMessage, if an alarm were emitted and then dispatched like any response
OnMessageFallThrough(m, c) ==
    IF m.shape # "object"
    THEN Throw(c)
    ELSE IF m.hasResponse
         THEN LET c1 == IF m.subject = "Alarm" THEN Emit(c, "alarm", m) ELSE c
                  handler == c1.handlers[m.action]
              IN IF handler # NoHandler
                 THEN Call(handler, m, c1)
                 ELSE [c1 EXCEPT !.logged = (m.subject # "Alarm")]
         ELSE IF m.msg = "online"
              THEN c
              ELSE [c EXCEPT !.logged = TRUE]

\* the callback of this.mqtt.on("message", ...)
OnMessage(m, c) ==
    IF m.shape # "object"
    THEN Throw(c)
    ELSE IF m.hasResponse
         THEN IF m.subject = "Alarm"
              THEN Emit(c, "alarm", m)
              ELSE LET handler == c.handlers[m.action]
                   IN IF handler # NoHandler
                      THEN Call(handler, m, c)
                      ELSE [c EXCEPT !.logged = TRUE]
         ELSE IF m.msg = "online"
              THEN c
              ELSE [c EXCEPT !.logged = TRUE]

\* Envelope, if it named the sender by the login name
EnvelopeLoginName(subject, request) ==
    [topic |-> "00s/01/x/300/" \o "D1" \o "/post/111",
     type |-> "broadcast", to |-> "D1", from |-> clientId,
     username |-> session.username, ack_mark |-> "0",
     subject |-> subject, request |-> request]

\* buildK1ActionMessage(subject, request) as send() publishes it
Envelope(subject, request) ==
    [topic |-> "00s/01/x/300/" \o "D1" \o "/post/111",
     type |-> "broadcast", to |-> "D1", from |-> clientId,
     username |-> session.alias, ack_mark |-> "0",
     subject |-> subject, request |-> request]

----------------------------------------------------------------------------
(* The state after new DeviceConnection(client, device, this)              *)

InitialHandlers ==
    [a \in ActionNames |->
        CASE a \in {"device_info", "get_all_devices", "get_scene_current"} -> ignore_message
          [] a \in {"status_info", "update_devices", "SceneUpdate"} -> Handler(a, 0, 0)
          [] a = "__proto__" -> ObjectPrototype
          [] OTHER -> NoHandler]

Idle == [name |-> "constructor", msg |-> Blank, newState |-> 0]

\* the fields the constructor sets, and a step that has had no effect yet
Constructed ==
    /\ handlers = InitialHandlers
    /\ model = ""
    /\ online = FALSE
    /\ devices = <<>>
    /\ alarm = <<>>
    /\ promises = <<>>
    /\ listing = [acc |-> <<>>, started |-> FALSE, exact |-> FALSE, regular |-> FALSE]
    /\ op = Idle
    /\ invoked = <<>>
    /\ emitted = <<>>
    /\ settled = <<>>
    /\ published = <<>>
    /\ raised = FALSE
    /\ logged = FALSE
    /\ effects = <<>>
    /\ network = <<>>
    /\ result = NoResult

Init ==
    /\ session \in Sessions
    /\ clientId \in ClientIds
    /\ Constructed

\* write the context a step ends with back to the connection
Commit(c) ==
    /\ handlers' = c.handlers
    /\ model' = c.model
    /\ online' = c.online
    /\ devices' = c.devices
    /\ alarm' = c.alarm
    /\ promises' = c.promises
    /\ listing' = c.listing
    /\ invoked' = c.invoked
    /\ emitted' = c.emitted
    /\ settled' = c.settled
    /\ effects' = c.effects
    /\ raised' = c.raised
    /\ logged' = c.logged

\* one inbound MQTT message
Receive(m) ==
    LET c == OnMessage(m, Context)
    IN /\ Len(c.devices) <= MaxDevices
       /\ Commit(c)
       /\ op' = [name |-> "message", msg |-> m, newState |-> 0]
       /\ published' = <<>>
       /\ network' = <<>>
       /\ result' = NoResult
       /\ UNCHANGED <<session, clientId>>

\* Request, if a request kept the closure of an unresolved earlier request
RequestKeepFirst(name, a, s, request, l) ==
    LET p == Len(promises) + 1
        h == handlers[a]
        busy == h.p > 0 /\ promises[h.p].status = "pending"
        c == [Context EXCEPT
                !.promises = Append(@, [kind |-> name, status |-> "pending"]),
                !.handlers[a] = IF busy THEN h ELSE Handler(name, p, s),
                !.listing = l]
    IN /\ Len(promises) < MaxCalls
       /\ Commit(c)
       /\ op' = [name |-> name, msg |-> Blank, newState |-> s]
       /\ published' = <<Envelope("zwave", request)>>
       /\ network' = <<>>
       /\ result' = NoResult
       /\ UNCHANGED <<session, clientId>>

\* new Promise(...) whose executor stores the closure under action a and sends
Request(name, a, s, request, l) ==
    LET p == Len(promises) + 1
        c == [Context EXCEPT
                !.promises = Append(@, [kind |-> name, status |-> "pending"]),
                !.handlers[a] = Handler(name, p, s),
                !.listing = l]
    IN /\ Len(promises) < MaxCalls
       /\ Commit(c)
       /\ op' = [name |-> name, msg |-> Blank, newState |-> s]
       /\ published' = <<Envelope("zwave", request)>>
       /\ network' = <<>>
       /\ result' = NoResult
       /\ UNCHANGED <<session, clientId>>

GetAllDevices ==
    Request("getAllDevices", "get_all_devices", 0,
            [action |-> "get_all_devices", status |-> "ok"],
            [acc |-> <<>>, started |-> FALSE, exact |-> (devices = <<>>), regular |-> TRUE])

GetCurrentAlarmState ==
    Request("getCurrentAlarmState", "get_scene_current", 0,
            [action |-> "get_scene_current"], listing)

SetAlarmState(newState) ==
    Request("setAlarmState", "set_scene_current", newState,
            [action |-> "set_scene_current", Mail |-> session.username,
             NewSceneId |-> ToString(newState)], listing)

Next ==
    \/ \E m \in Messages : Receive(m)
    \/ GetAllDevices
    \/ GetCurrentAlarmState
    \/ \E s \in RequestedStates : SetAlarmState(s)

Spec == Init /\ [][Next]_vars

\* the device listing on its own: its requests and its traffic
ListingNext ==
    \/ \E m \in ListingMessages : Receive(m)
    \/ GetAllDevices

ListingSpec == Init /\ [][ListingNext]_vars

\* the alarm state on its own: its requests and its traffic
SceneNext ==
    \/ \E m \in SceneMessages : Receive(m)
    \/ GetCurrentAlarmState
    \/ \E s \in RequestedStates : SetAlarmState(s)

SceneSpec == Init /\ [][SceneNext]_vars

\* the sends of connections that differ in client id and in session
SendClientIds == {"android_0", "android_999999"}
SendSessions ==
    {NewClient("user@example.org", "Home", "ABC", "https://uac.example"),
     NewClient("other@example.org", "Flat", "XYZ", "https://uac.example")}
SendMessages ==
    {Page("1", "0", Array(<<Dev("1", "a")>>)), Scene("3", "1"),
     Ack("set_scene_current", "ok"), Ack("set_scene_current", "fail")}

SendInit ==
    /\ session \in SendSessions
    /\ clientId \in SendClientIds
    /\ Constructed

SendNext ==
    \/ \E m \in SendMessages : Receive(m)
    \/ GetAllDevices
    \/ GetCurrentAlarmState
    \/ \E s \in RequestedStates : SetAlarmState(s)

SendSpec == SendInit /\ [][SendNext]_vars

----------------------------------------------------------------------------
(* The Client *)

\* the connection as its constructor leaves it
NewConnection ==
    [Context EXCEPT !.handlers = InitialHandlers, !.model = "", !.online = FALSE,
                    !.devices = <<>>, !.alarm = <<>>, !.promises = <<>>,
                    !.listing = [acc |-> <<>>, started |-> FALSE,
                                 exact |-> FALSE, regular |-> FALSE]]

\* nothing of the connection is touched by a step of the Client
ConnectionUnchanged ==
    /\ invoked' = <<>> /\ emitted' = <<>> /\ settled' = <<>> /\ effects' = <<>>
    /\ published' = <<>> /\ raised' = FALSE /\ logged' = FALSE
    /\ UNCHANGED <<handlers, model, online, devices, alarm, promises, listing, clientId>>

\* await Client.login(username, password, uuid): the caller keeps the Client
Login(username, dir, login, info) ==
    LET r == LoginCall(username, dir, login, info)
    IN /\ network' = r.network
       /\ result' = r.result
       /\ session' = IF r.result.how = "returned" THEN r.result.client ELSE session
       /\ op' = [name |-> "login", msg |-> Blank, newState |-> 0]
       /\ ConnectionUnchanged

\* await client.listDevices()
ListDevices(resp) ==
    LET r == ListCall(session, resp)
    IN /\ session # NoClient
       /\ network' = r.network
       /\ result' = r.result
       /\ op' = [name |-> "listDevices", msg |-> Blank, newState |-> 0]
       /\ ConnectionUnchanged
       /\ UNCHANGED session

\* await client.connect(device)
Connect(device) ==
    /\ session # NoClient
    /\ network' = <<Exchange("connect", "tls://" \o device.cmdIP \o ":8883",
                             "and_" \o device.deviceID, session.token, NoBody),
                    Exchange("subscribe", "00s/01/x/300/" \o device.deviceID \o "/set/#",
                             Undefined, Undefined, NoBody)>>
    /\ result' = ReturnedConnection
    /\ Commit(NewConnection)
    /\ clientId' \in ClientIds
    /\ published' = <<>>
    /\ op' = [name |-> "connect", msg |-> Blank, newState |-> 0]
    /\ UNCHANGED session

LoginInit ==
    /\ session = NoClient
    /\ clientId = Undefined
    /\ Constructed

LoginNext ==
    \/ \E u \in Usernames, dir \in DirectoryResponses,
          login \in LoginResponses, info \in UserInfoResponses :
          Login(u, dir, login, info)
    \/ \E resp \in ListResponses : ListDevices(resp)
    \/ \E device \in DeviceInfos : Connect(device)

LoginSpec == LoginInit /\ [][LoginNext]_vars

----------------------------------------------------------------------------
(* Vocabulary of the properties *)

\* the last step ran the "message" callback on m and reached the action lookup
Dispatched(o) ==
    /\ o.name = "message"
    /\ o.msg.shape = "object"
    /\ o.msg.hasResponse
    /\ o.msg.subject # "Alarm"

\* the last step ran the "message" callback on a message of the "Alarm" subject
AlarmDelivered(o) ==
    /\ o.name = "message"
    /\ o.msg.shape = "object"
    /\ o.msg.hasResponse
    /\ o.msg.subject = "Alarm"

ActionOf(kind) == CHOOSE a \in RequestActions : KindOf(a) = kind
RequestKinds == {KindOf(a) : a \in RequestActions}
Promises == 1..Len(promises)
Pending(p) == promises[p].status = "pending"
\* the closure of promise p is the one stored in the mapping
Registered(p) == handlers[ActionOf(promises[p].kind)].p = p
\* a later request for the same action took the slot of the unresolved p
Superseded(p) == Pending(p) /\ ~Registered(p)

----------------------------------------------------------------------------
(* C1: each of get_all_devices, get_scene_current, set_scene_current maps  *)
(* to at most one callback, the closure of the latest request for that     *)
(* action; a request issued while an earlier one for the same action is    *)
(* unresolved puts its own closure in the earlier one's place.             *)

C1_Slot(a) ==
    LET h == handlers[a]
    IN \/ h \in {NoHandler, ignore_message}
       \/ /\ h.kind = KindOf(a)
          /\ h.p \in Promises
          /\ promises[h.p].kind = KindOf(a)
          /\ \A q \in Promises : promises[q].kind = KindOf(a) => q <= h.p
          /\ Cardinality({q \in Promises : Pending(q) /\ Registered(q)
                                            /\ promises[q].kind = KindOf(a)}) <= 1

C1_Replaces(a) ==
    op'.name = KindOf(a) =>
        /\ promises' = Append(promises, [kind |-> KindOf(a), status |-> "pending"])
        /\ handlers' = [handlers EXCEPT ![a] = Handler(KindOf(a), Len(promises'), op'.newState)]

C1_SingleCallback ==
    /\ [](\A a \in RequestActions : C1_Slot(a))
    /\ [][\A a \in RequestActions : C1_Replaces(a)]_vars

\* two unresolved requests for one action, the slot holding the second
C1_Witness ==
    \E a \in RequestActions :
        /\ Len(promises) = 2
        /\ promises[1].kind = KindOf(a) /\ promises[2].kind = KindOf(a)
        /\ Pending(1) /\ Pending(2)
        /\ op.name = KindOf(a)
        /\ handlers[a].p = 2

----------------------------------------------------------------------------
(* C6: when a request is issued while an earlier request for the same      *)
(* action is unresolved, whatever a later message settles is the promise   *)
(* of the closure in the mapping, never the earlier caller's: the earlier  *)
(* promise stays pending through every later step.                         *)

C6_Step ==
    /\ \A p \in Promises :
          Superseded(p) => /\ promises'[p] = promises[p]
                           /\ ~(handlers'[ActionOf(promises[p].kind)].p = p)
                           /\ \A i \in 1..Len(settled') : settled'[i].p # p
    /\ \A i \in 1..Len(settled') :
          /\ settled'[i].p \in Promises
          /\ Pending(settled'[i].p) /\ Registered(settled'[i].p)
    /\ Len(settled') <= 1

C6_SupersededNeverSettles == [][C6_Step]_vars

\* the second of two overlapping requests has just been settled, the first is pending
C6_Witness ==
    /\ Len(promises) = 2
    /\ promises[1].kind = promises[2].kind
    /\ Pending(1)
    /\ Len(settled) = 1 /\ settled[1].p = 2
    /\ op.name = "message"

----------------------------------------------------------------------------
(* C9: a message that carries a response is dispatched on its action: the  *)
(* handler the mapping holds for the action is the one invoked, an action  *)
(* without a handler invokes nothing, and the action of a request the      *)
(* caller has not issued leaves the connection as it was.  A message of    *)
(* the "Alarm" subject is not dispatched: no handler runs, no promise is   *)
(* settled, and exactly one 'alarm' event carrying the message is emitted. *)

C9_Dispatch ==
    Dispatched(op') =>
        LET h == handlers[op'.msg.action]
        IN /\ (h \notin {NoHandler, ObjectPrototype}) =>
                (invoked' # <<>> /\ invoked'[1] = h)
           /\ (h = NoHandler) =>
                (invoked' = <<>> /\ logged' /\ settled' = <<>> /\ emitted' = <<>>)
           /\ (/\ op'.msg.action \in RequestActions
               /\ \A p \in Promises : promises[p].kind # KindOf(op'.msg.action)) =>
                /\ UNCHANGED <<handlers, model, online, devices, alarm, promises>>
                /\ settled' = <<>> /\ emitted' = <<>> /\ ~raised'

C9_AlarmBypass ==
    AlarmDelivered(op') =>
        /\ invoked' = <<>>
        /\ settled' = <<>>
        /\ promises' = promises
        /\ emitted' = <<[type |-> "alarm", value |-> op'.msg]>>

----------------------------------------------------------------------------
(* C10: processing a message of the "Alarm" subject emits it as an 'alarm' *)
(* event and changes neither the connection (Online, Model, Devices,       *)
(* Alarm, the handler mapping) nor the session (username, alias, token).   *)

C10_Step ==
    AlarmDelivered(op') =>
        /\ \E i \in 1..Len(emitted') : emitted'[i] = [type |-> "alarm", value |-> op'.msg]
        /\ UNCHANGED <<online, model, devices, alarm, handlers, session>>

C10_AlarmLeavesState == [][C10_Step]_vars

\* an "Alarm" message that looks like a listing page arrived during a listing
C10_Witness ==
    /\ AlarmDelivered(op)
    /\ op.msg.action = "get_all_devices" /\ op.msg.page_flag = "0"
    /\ handlers["get_all_devices"].kind = "getAllDevices"
    /\ devices # op.msg.DevicesList.items
    /\ alarm # <<>>
    /\ emitted # <<>>

----------------------------------------------------------------------------
(* The device listing.  listing.acc is the concatenation of the            *)
(* DevicesList of the pages the stored closure has processed, kept while   *)
(* the pages are regular: every page carries an array or no DevicesList,   *)
(* every page but the last has page_flag "1", and none but the first has   *)
(* clear_flag "1".  listing.exact says that the list held nothing but      *)
(* those pages: it was empty when the request was issued or the first page *)
(* cleared it, and no update_devices message changed it since.             *)

\* the last step handed a get_all_devices message to the action lookup
PageDelivered(o) == Dispatched(o) /\ o.msg.action = "get_all_devices"

\* the last step ran the closure of a getAllDevices() request on a page
PageProcessed ==
    /\ PageDelivered(op)
    /\ invoked # <<>> /\ invoked[1].kind = "getAllDevices"

----------------------------------------------------------------------------
(* C2: after the pages of a pending getAllDevices() are processed, Devices *)
(* is the payload of those pages with entries of equal DevId resolved to   *)
(* the last one seen, and a page with clear_flag "1" empties the list      *)
(* before its own entries are added.                                       *)

C2_LastSeenById ==
    /\ (listing.started /\ listing.regular /\ listing.exact) =>
            devices = MergeDevices(<<>>, listing.acc)
    /\ (PageProcessed /\ op.msg.clear_flag = "1" /\ ~raised) =>
            devices = MergeDevices(<<>>, op.msg.DevicesList.items)

----------------------------------------------------------------------------
(* C3: a getAllDevices() promise is resolved only by a get_all_devices     *)
(* message with page_flag "0".                                             *)
(* As claimed: every pending getAllDevices() promise resolves in the step  *)
(* that processes such a message (one whose DevicesList, if any, is an     *)
(* array).                                                                 *)

C3_OnlyOnLastPage ==
    \A p \in Promises :
        (promises[p].kind = "getAllDevices" /\ Pending(p) /\ promises'[p] # promises[p]) =>
            /\ PageDelivered(op') /\ op'.msg.page_flag = "0"
            /\ promises'[p].status = "resolved"

C3_Original ==
    [][/\ C3_OnlyOnLastPage
       /\ (/\ PageDelivered(op') /\ op'.msg.page_flag = "0"
           /\ op'.msg.DevicesList.kind # "bad") =>
             \A p \in Promises :
                (promises[p].kind = "getAllDevices" /\ Pending(p)) =>
                    promises'[p].status = "resolved"]_vars

(* C3 as amended: the promise of the closure in the mapping resolves in    *)
(* the step that processes the first page_flag "0" message whose           *)
(* DevicesList is absent or an array; a page_flag "0" message whose        *)
(* DevicesList is not iterable raises and resolves nothing, and a promise  *)
(* superseded by a later getAllDevices() is never resolved.                *)

C3_LastPage ==
    (PageDelivered(op') /\ op'.msg.page_flag = "0") =>
        \A p \in Promises :
            (promises[p].kind = "getAllDevices" /\ Pending(p)) =>
                /\ (Registered(p) /\ op'.msg.DevicesList.kind # "bad") =>
                        /\ promises'[p].status = "resolved"
                        /\ settled' = <<[p |-> p, kind |-> "getAllDevices",
                                         how |-> "resolved", value |-> devices']>>
                /\ (Registered(p) /\ op'.msg.DevicesList.kind = "bad") =>
                        /\ promises'[p].status = "pending"
                        /\ settled' = <<>> /\ raised'
                /\ ~Registered(p) => promises'[p].status = "pending"

C3_ResolvesOnLastPage == [][C3_OnlyOnLastPage /\ C3_LastPage]_vars

\* a page with page_flag "0" has just resolved a listing that saw earlier pages
C3_Witness ==
    /\ PageProcessed /\ op.msg.page_flag = "0"
    /\ Len(settled) = 1 /\ settled[1].kind = "getAllDevices"
    /\ Len(devices) > Len(op.msg.DevicesList.items)

----------------------------------------------------------------------------
(* C4: a getAllDevices() answered by k >= 1 pages, every page but the last *)
(* with page_flag "1" and the last with page_flag "0", resolves with the   *)
(* devices of those pages in arrival order.                                *)
(* As claimed: with exactly those devices, whatever the list held before.  *)

C4_Original ==
    \A i \in 1..Len(settled) :
        (settled[i].kind = "getAllDevices" /\ listing.regular) =>
            settled[i].value = listing.acc

(* C4 as amended: exactly those devices when the list was empty at the     *)
(* request or the first page carries clear_flag "1", no later page carries *)
(* clear_flag "1" and no update_devices message changes the list in        *)
(* between.  In every case the promise resolves with the whole list.       *)

C4_PagesInOrder ==
    \A i \in 1..Len(settled) :
        (settled[i].kind = "getAllDevices" /\ listing.regular) =>
            /\ settled[i].how = "resolved"
            /\ settled[i].value = devices
            /\ listing.exact => settled[i].value = listing.acc

\* pages of two devices and of one device have resolved a request with three
C4_Witness ==
    /\ PageProcessed /\ op.msg.page_flag = "0"
    /\ Len(op.msg.DevicesList.items) = 1
    /\ listing.regular /\ listing.exact
    /\ Len(settled) = 1 /\ settled[1].kind = "getAllDevices"
    /\ Len(settled[1].value) = 3 /\ Len(listing.acc) = 3

----------------------------------------------------------------------------
(* C5: when a set_scene_current response with status "ok" answers a        *)
(* pending setAlarmState(s), Alarm.State becomes s and the promise         *)
(* resolves true; a set_scene_current response with any other status       *)
(* rejects the promise and leaves the alarm state as it was.               *)

C5_Step ==
    LET h == handlers["set_scene_current"]
    IN (/\ Dispatched(op') /\ op'.msg.action = "set_scene_current"
        /\ h.kind = "setAlarmState" /\ Pending(h.p)) =>
            IF op'.msg.status = "ok"
            THEN /\ alarm' = <<[State |-> h.newState, Alarm |-> FALSE]>>
                 /\ promises'[h.p].status = "resolved"
                 /\ settled' = <<[p |-> h.p, kind |-> "setAlarmState",
                                  how |-> "resolved", value |-> TRUE]>>
            ELSE /\ alarm' = alarm
                 /\ promises'[h.p].status = "rejected"
                 /\ settled' = <<[p |-> h.p, kind |-> "setAlarmState",
                                  how |-> "rejected", value |-> op'.msg]>>

C5_AcknowledgedState == [][C5_Step]_vars

\* a failure status has just rejected a setAlarmState and the alarm state stands
C5_Witness ==
    /\ Dispatched(op) /\ op.msg.action = "set_scene_current" /\ op.msg.status = "fail"
    /\ Len(settled) = 1 /\ settled[1].how = "rejected"
    /\ alarm # <<>> /\ alarm[1].State # handlers["set_scene_current"].newState
    /\ \E p \in Promises : promises[p].kind = "setAlarmState" /\ promises[p].status = "resolved"

----------------------------------------------------------------------------
(* C7: the closures of getCurrentAlarmState() and setAlarmState() are      *)
(* one-shot: once a closure has settled its promise no later message       *)
(* invokes it, and a later message with its action leaves the alarm state  *)
(* as it was.                                                              *)

C7_Step ==
    /\ \A i \in 1..Len(invoked') :
          invoked'[i].kind \in {"getCurrentAlarmState", "setAlarmState"} =>
              Pending(invoked'[i].p)
    /\ \A a \in {"get_scene_current", "set_scene_current"} :
          (/\ Dispatched(op') /\ op'.msg.action = a
           /\ \E p \in Promises : promises[p].kind = KindOf(a)
           /\ \A p \in Promises : promises[p].kind = KindOf(a) => ~Pending(p)) =>
              alarm' = alarm

C7_OneShot == [][C7_Step]_vars

----------------------------------------------------------------------------
(* C8: a pending getCurrentAlarmState() promise resolves when a response   *)
(* is processed whose action is the one its closure is stored under.       *)
(* As claimed: that action is "get_scene_current".                         *)

C8_Original ==
    [][LET h == handlers["get_scene_current"]
       IN (/\ Dispatched(op') /\ op'.msg.action = "get_scene_current"
           /\ h.kind = "getCurrentAlarmState" /\ Pending(h.p)) =>
               promises'[h.p].status = "resolved"]_vars

(* C8 as amended: the promise resolves, with the alarm state the message   *)
(* carries, when a response with action "SceneUpdate" is processed, which  *)
(* handlers["SceneUpdate"] passes on to the closure; a response with       *)
(* action "get_scene_current" invokes the closure and resolves nothing.    *)

C8_Step ==
    LET h == handlers["get_scene_current"]
    IN (/\ Dispatched(op')
        /\ h.kind = "getCurrentAlarmState" /\ Pending(h.p)) =>
            /\ op'.msg.action = "SceneUpdate" =>
                  /\ promises'[h.p].status = "resolved"
                  /\ settled' = <<[p |-> h.p, kind |-> "getCurrentAlarmState",
                                   how |-> "resolved", value |-> alarm']>>
                  /\ alarm' = <<[State |-> ToNumber(op'.msg.CurrentSceneId),
                                 Alarm |-> (op'.msg.AlarmState = "1")]>>
                  /\ handlers'["get_scene_current"] = ignore_message
            /\ op'.msg.action = "get_scene_current" =>
                  /\ invoked' = <<h>>
                  /\ promises' = promises
                  /\ settled' = <<>>
                  /\ handlers' = handlers

C8_ResolvesOnSceneUpdate == [][C8_Step]_vars

\* a SceneUpdate has just resolved a getCurrentAlarmState
C8_Witness ==
    /\ Dispatched(op) /\ op.msg.action = "SceneUpdate"
    /\ Len(settled) = 1 /\ settled[1].kind = "getCurrentAlarmState"
    /\ settled[1].value = alarm
    /\ Len(invoked) = 2

----------------------------------------------------------------------------
(* C11: no inbound message is escalated as an error: whatever the payload  *)
(* (text that is not JSON, an action without a handler, a structure the    *)
(* handler does not expect), the "message" callback returns normally: no   *)
(* exception leaves it.                                                    *)
(* Violated: JSON.parse and the handlers run without a try/catch, so the   *)
(* SyntaxError of an unparseable payload and the TypeError of a null       *)
(* payload, of a DevicesList that is not iterable and of the action        *)
(* "__proto__" all leave the callback.                                     *)

C11_NeverEscalated == op.name = "message" => ~raised

----------------------------------------------------------------------------
(* C12: a promise is rejected only by an explicit failure status: the      *)
(* promises of getAllDevices() and getCurrentAlarmState() are never        *)
(* rejected; a setAlarmState() promise is rejected only by a dispatched    *)
(* "set_scene_current" response whose status is not "ok", handed to the    *)
(* closure in the mapping; a step that is not an inbound message (there is *)
(* no timer and no retry) settles nothing and leaves every promise as it   *)
(* was.                                                                    *)

C12_Step ==
    /\ \A p \in Promises :
          (Pending(p) /\ promises'[p].status = "rejected") =>
              /\ promises[p].kind = "setAlarmState"
              /\ Registered(p)
              /\ Dispatched(op')
              /\ op'.msg.action = "set_scene_current"
              /\ op'.msg.status # "ok"
              /\ settled' = <<[p |-> p, kind |-> "setAlarmState",
                               how |-> "rejected", value |-> op'.msg]>>
    /\ \A i \in 1..Len(settled') :
          settled'[i].how = "rejected" =>
              /\ settled'[i].p \in Promises
              /\ Pending(settled'[i].p)
              /\ promises'[settled'[i].p].status = "rejected"
    /\ op'.name # "message" =>
          /\ settled' = <<>>
          /\ \A p \in Promises : promises'[p] = promises[p]

C12_RejectedOnlyByFailure ==
    /\ [](\A p \in Promises :
             promises[p].kind \in {"getAllDevices", "getCurrentAlarmState"}
                 => promises[p].status # "rejected")
    /\ [][C12_Step]_vars

\* a failure status has just rejected a setAlarmState() while another call
\* is still pending
C12_Witness ==
    /\ Dispatched(op) /\ op.msg.action = "set_scene_current" /\ op.msg.status = "fail"
    /\ Len(settled) = 1 /\ settled[1].how = "rejected" /\ settled[1].value = op.msg
    /\ promises[settled[1].p] = [kind |-> "setAlarmState", status |-> "rejected"]
    /\ \E q \in Promises : Pending(q) /\ promises[q].kind # "setAlarmState"

----------------------------------------------------------------------------
(* Vocabulary of the Client properties *)

\* the exchange x was answered with a success status
Succeeded(x) ==
    /\ x.response.status = "200"
    /\ IF x.call = "userReg" THEN x.response.uibReturn ELSE x.response.data

Calls(n) == [i \in 1..Len(n) |-> n[i].call]

----------------------------------------------------------------------------
(* C13, as stated: a login whose directory response has a non-success      *)
(* status never issues the credentialed login request, and login returns a *)
(* Client in every run except those where the answer to the credentialed   *)
(* login has a non-success status.                                         *)
(* Violated: after a successful credentialed login the code asks for the   *)
(* user info, and a non-success answer to that makes login fail.           *)

C13_OriginalStep ==
    op'.name = "login" =>
        /\ ~Succeeded(network'[1]) => Calls(network') = <<"userReg">>
        /\ Len(network') >= 2 =>
              (result'.how = "returned" <=> Succeeded(network'[2]))

C13_Original == [][C13_OriginalStep]_vars

(* C13, amended: a login whose directory response has a non-success status *)
(* issues no further request; one whose credentialed login has a           *)
(* non-success status does not ask for the user info; login returns a      *)
(* Client exactly when the directory, the credentialed login and the user  *)
(* info all answered with a success status, and throws otherwise.          *)

C13_Step ==
    op'.name = "login" =>
        /\ network'[1].call = "userReg"
        /\ ~Succeeded(network'[1]) => Calls(network') = <<"userReg">>
        /\ (Succeeded(network'[1]) /\ ~Succeeded(network'[2]))
              => Calls(network') = <<"userReg", "userLogin">>
        /\ (Succeeded(network'[1]) /\ Succeeded(network'[2]))
              => Calls(network') = <<"userReg", "userLogin", "getUserInfo">>
        /\ result'.how \in {"returned", "thrown"}
        /\ result'.how = "returned" <=>
              /\ Len(network') = 3
              /\ \A i \in 1..3 : Succeeded(network'[i])
        /\ result'.how = "returned" => result'.client.token # Undefined

C13_TokenIssued == [][C13_Step]_vars

\* the credentialed login succeeded and the login failed on the user info
C13_Witness ==
    /\ op.name = "login"
    /\ Len(network) = 3
    /\ Succeeded(network[1]) /\ Succeeded(network[2]) /\ ~Succeeded(network[3])
    /\ result.how = "thrown"

----------------------------------------------------------------------------
(* C14: the token of the Client a successful login returns is the token    *)
(* field of the answer to the credentialed login (userLogin), not the      *)
(* token of the directory answer; listDevices() and connect() leave the    *)
(* Client, its token included, as it was, and present that token.          *)

C14_Step ==
    /\ (op'.name = "login" /\ result'.how = "returned") =>
          /\ result'.client.token = network'[2].response.token
          /\ network'[2].call = "userLogin"
          /\ session' = result'.client
    /\ (op'.name = "login" /\ result'.how # "returned") => session' = session
    /\ op'.name \in {"listDevices", "connect"} =>
          /\ session' = session
          /\ network'[1].token = session.token

C14_SessionToken == [][C14_Step]_vars

\* a Client holding the token "XYZ" of its login has just connected with it
C14_Witness ==
    /\ op.name = "connect"
    /\ session.token = "XYZ"
    /\ network[1].token = "XYZ"

----------------------------------------------------------------------------
(* C15: login fails whenever one of its steps is answered with a           *)
(* non-success status: it throws, the step so answered is the last one it  *)
(* took, and what it throws is the body of that answer as received.        *)

C15_Step ==
    op'.name = "login" =>
        \A i \in 1..Len(network') :
            ~Succeeded(network'[i]) =>
                /\ i = Len(network')
                /\ result'.how = "thrown"
                /\ result'.body = network'[i].response
                /\ result'.client = NoClient
                /\ session' = session

C15_RaisesBody == [][C15_Step]_vars

\* the login was refused by the credentialed step and threw that answer
C15_Witness ==
    /\ op.name = "login"
    /\ Calls(network) = <<"userReg", "userLogin">>
    /\ network[2].response = LoginReply("500", Undefined)
    /\ result = Thrown(LoginReply("500", Undefined))

----------------------------------------------------------------------------
(* C16: listDevices() makes one network call, the listDevice request; it   *)
(* returns the list of the answer if and only if the status of the answer  *)
(* is "200", and otherwise throws the body of the answer and returns no    *)
(* list.                                                                   *)

C16_Step ==
    op'.name = "listDevices" =>
        /\ Calls(network') = <<"listDevice">>
        /\ result'.how = "returned" <=> network'[1].response.status = "200"
        /\ result'.how = "returned" =>
              /\ result'.list = network'[1].response.list
              /\ result'.body = NoBody
        /\ result'.how # "returned" =>
              /\ result'.how = "thrown"
              /\ result'.body = network'[1].response
              /\ result'.list = <<>>

C16_ListGated == [][C16_Step]_vars

\* a listing answered with status "200" returned its one device
C16_Witness ==
    /\ op.name = "listDevices"
    /\ result.how = "returned"
    /\ Len(result.list) = 1
    /\ network[1].response.status = "200"

----------------------------------------------------------------------------
(* C17: an "update_devices" message merges its devices into the list by    *)
(* identifier: a received device whose DevId is that of an entry takes the *)
(* place of that entry (the first one of that DevId), every other entry    *)
(* stays where it was, and a received device of an unknown DevId is added  *)
(* at the end, in the order received; a list without two entries of the    *)
(* same DevId is still one after the message.                              *)

NoDuplicates(devs) ==
    \A i, j \in 1..Len(devs) : devs[i].DevId = devs[j].DevId => i = j

\* the last device of the received list that carries the DevId id
LastReceived(items, id) ==
    items[CHOOSE k \in 1..Len(items) :
            /\ items[k].DevId = id
            /\ \A l \in (k + 1)..Len(items) : items[l].DevId # id]

\* where the received list first carries the DevId id
FirstReceivedAt(items, id) ==
    CHOOSE k \in 1..Len(items) :
        /\ items[k].DevId = id
        /\ \A l \in 1..(k - 1) : items[l].DevId # id

C17_Step ==
    (/\ Dispatched(op')
     /\ op'.msg.action = "update_devices"
     /\ op'.msg.DevicesList.kind = "array") =>
        LET items == op'.msg.DevicesList.items
            received == {items[k].DevId : k \in 1..Len(items)}
            known == {devices[i].DevId : i \in 1..Len(devices)}
            first(i) == \A j \in 1..(i - 1) : devices[j].DevId # devices[i].DevId
            added == (Len(devices) + 1)..Len(devices')
        IN /\ Len(devices') >= Len(devices)
           /\ \A i \in 1..Len(devices) :
                 devices'[i] = IF first(i) /\ devices[i].DevId \in received
                               THEN LastReceived(items, devices[i].DevId)
                               ELSE devices[i]
           /\ {devices'[i].DevId : i \in added} = received \ known
           /\ Cardinality(received \ known) = Len(devices') - Len(devices)
           /\ \A i \in added : devices'[i] = LastReceived(items, devices'[i].DevId)
           /\ \A i, j \in added :
                 i < j => FirstReceivedAt(items, devices'[i].DevId)
                              < FirstReceivedAt(items, devices'[j].DevId)
           /\ NoDuplicates(devices) => NoDuplicates(devices')
           /\ ~raised'

C17_MergeById == [][C17_Step]_vars

\* one message has replaced the device "1" in place and added the device "2"
C17_Witness ==
    /\ Dispatched(op)
    /\ op.msg = Update(Array(<<Dev("2", "a"), Dev("1", "b")>>))
    /\ devices = <<Dev("1", "b"), Dev("2", "a")>>

----------------------------------------------------------------------------
(* C18: every call of getAllDevices(), getCurrentAlarmState() and          *)
(* setAlarmState() publishes exactly one envelope, on the topic            *)
(* 00s/01/x/300/<deviceId>/post/111, of type "broadcast", to the device    *)
(* id, from the client id of the connection (which no step changes, so it  *)
(* is the same for every send), with the alias of the session as username  *)
(* and the request of the call; it is published within the call, whose     *)
(* promise is still pending and which no inbound message has answered; an  *)
(* inbound message publishes nothing.                                      *)

C18_Step ==
    /\ op'.name \in RequestKinds =>
          /\ Len(published') = 1
          /\ published'[1].topic = "00s/01/x/300/D1/post/111"
          /\ published'[1].type = "broadcast"
          /\ published'[1].to = "D1"
          /\ published'[1].from = clientId
          /\ published'[1].username = session.alias
          /\ published'[1].request.action = ActionOf(op'.name)
          /\ promises'[Len(promises')] = [kind |-> op'.name, status |-> "pending"]
          /\ settled' = <<>>
    /\ op'.name = "message" => published' = <<>>
    /\ clientId' = clientId
    /\ session' = session

C18_OneEnvelope == [][C18_Step]_vars

\* a second request went out while the first was unanswered
C18_Witness ==
    /\ op.name = "setAlarmState"
    /\ Len(promises) = 2 /\ Pending(1) /\ Pending(2)
    /\ Len(published) = 1
    /\ published[1].from = "android_999999"
    /\ published[1].username = "Flat"
    /\ published[1].request.action = "set_scene_current"

----------------------------------------------------------------------------
(* C19: Online is false until a "status_info" response arrives; each such  *)
(* response sets it to whether the online field of the response is "1",    *)
(* and emits exactly one 'status' event, carrying that boolean; no other   *)
(* step changes Online or emits a 'status' event.  So Online is true       *)
(* exactly when the most recent "status_info" response had online "1".     *)

C19_Step ==
    IF Dispatched(op') /\ op'.msg.action = "status_info"
    THEN /\ online' = (op'.msg.online = "1")
         /\ Len(emitted') = 1
         /\ emitted'[1].type = "status"
         /\ emitted'[1].value = online'
    ELSE /\ online' = online
         /\ \A i \in 1..Len(emitted') : emitted'[i].type # "status"

C19_OnlineIsLastStatus == ~online /\ [][C19_Step]_vars

\* a response with online "0" has just been handled: offline, one event
C19_Witness ==
    /\ Dispatched(op)
    /\ op.msg = Status("0")
    /\ ~online
    /\ Len(emitted) = 1 /\ emitted[1].type = "status" /\ ~emitted[1].value

----------------------------------------------------------------------------
(* C20: whenever a getCurrentAlarmState() promise resolves, the step is    *)
(* the dispatch of a "SceneUpdate" message, the value is not null and is   *)
(* the state that message carries (State the number of its CurrentSceneId, *)
(* Alarm whether its AlarmState is "1"), which is also the stored alarm    *)
(* state, and a 'state' event with that value was emitted earlier in the   *)
(* same step than the promise was resolved.                                *)

\* the place in the order of the last step of the at-th emit or settlement
Place(fx, out, at) ==
    CHOOSE k \in 1..Len(fx) : fx[k] = [out |-> out, at |-> at]

C20_Step ==
    \A i \in 1..Len(settled') :
        (settled'[i].kind = "getCurrentAlarmState" /\ settled'[i].how = "resolved") =>
            /\ Dispatched(op')
            /\ op'.msg.action = "SceneUpdate"
            /\ settled'[i].value # <<>>
            /\ settled'[i].value =
                  <<[State |-> ToNumber(op'.msg.CurrentSceneId),
                     Alarm |-> (op'.msg.AlarmState = "1")]>>
            /\ settled'[i].value = alarm'
            /\ \E e \in 1..Len(emitted') :
                  /\ emitted'[e].type = "state"
                  /\ emitted'[e].value = settled'[i].value[1]
                  /\ [out |-> "emit", at |-> e] \in {effects'[k] : k \in 1..Len(effects')}
                  /\ [out |-> "settle", at |-> i] \in {effects'[k] : k \in 1..Len(effects')}
                  /\ Place(effects', "emit", e) < Place(effects', "settle", i)

C20_ResolvesWithState == [][C20_Step]_vars

\* a state with the alarm on has been announced, then handed to a pending
\* getCurrentAlarmState()
C20_Witness ==
    /\ Dispatched(op)
    /\ op.msg = Scene("7", "1")
    /\ Len(settled) = 1
    /\ settled[1].kind = "getCurrentAlarmState" /\ settled[1].how = "resolved"
    /\ settled[1].value = <<[State |-> 7, Alarm |-> TRUE]>>
    /\ effects = <<[out |-> "emit", at |-> 1], [out |-> "settle", at |-> 1]>>

----------------------------------------------------------------------------
(* C21: in every reachable state the alarm state of the connection is      *)
(* either null or has a State that is one of the values of ArmState        *)
(* (Home 1, Disarmed 2, Armed 3, SOS 4), whatever CurrentSceneId the       *)
(* inbound "SceneUpdate" messages carry.                                   *)
(* Violated: handlers["SceneUpdate"] stores Number(resp.CurrentSceneId)    *)
(* as it is, so a CurrentSceneId of "7" leaves State 7 and a message       *)
(* without the field leaves NaN.                                           *)

C21_StateEnumerated == alarm = <<>> \/ alarm[1].State \in ArmState

----------------------------------------------------------------------------
(* C22: once a getAllDevices() promise has resolved and no getAllDevices() *)
(* has been issued since (the latest getAllDevices() promise is the        *)
(* resolved one), an inbound message of action "get_all_devices", whatever *)
(* its clear_flag, DevicesList and page_flag, leaves the device list as it *)
(* was, settles no promise and raises nothing.                             *)

\* the promise of the latest getAllDevices() call, 0 if there was no call
LatestListing ==
    LET calls == {p \in Promises : promises[p].kind = "getAllDevices"}
    IN IF calls = {} THEN 0 ELSE CHOOSE p \in calls : \A q \in calls : q <= p

C22_Step ==
    (/\ LatestListing > 0
     /\ promises[LatestListing].status = "resolved"
     /\ op'.name = "message"
     /\ op'.msg.shape = "object"
     /\ op'.msg.hasResponse
     /\ op'.msg.action = "get_all_devices") =>
        /\ devices' = devices
        /\ promises' = promises
        /\ settled' = <<>>
        /\ handlers' = handlers
        /\ ~raised'

C22_ResolvedListingIgnores == [][C22_Step]_vars

\* a last page that clears and lists two devices found the listing resolved:
\* it was given to ignore_message and the one device listed before is kept
C22_Witness ==
    /\ Dispatched(op)
    /\ op.msg = Page("1", "0", Array(<<Dev("2", "a"), Dev("1", "b")>>))
    /\ invoked = <<ignore_message>>
    /\ settled = <<>>
    /\ LatestListing > 0
    /\ promises[LatestListing].status = "resolved"
    /\ devices = <<Dev("1", "a")>>

----------------------------------------------------------------------------
(* C23: the alarm state changes only through a dispatched "SceneUpdate"    *)
(* response or through a "set_scene_current" response of status "ok" that  *)
(* answers an outstanding setAlarmState(), one whose promise is pending    *)
(* and whose closure is in the mapping; a "set_scene_current" response     *)
(* that answers no outstanding request leaves it as it was.                *)
(* Violated: the closure of setAlarmState() stays in the mapping after its *)
(* promise has settled (C7), so a later "ok" response runs it again and    *)
(* puts the state requested by the old call over the one a "SceneUpdate"   *)
(* has reported since.                                                     *)

C23_Step ==
    alarm' # alarm =>
        /\ Dispatched(op')
        /\ \/ op'.msg.action = "SceneUpdate"
           \/ /\ op'.msg.action = "set_scene_current"
              /\ op'.msg.status = "ok"
              /\ \E p \in Promises :
                    /\ promises[p].kind = "setAlarmState"
                    /\ Pending(p)
                    /\ Registered(p)

C23_OnlySceneOrAcknowledged == [][C23_Step]_vars

====
